---- MODULE Spec2Model ----
(***************************************************************************)
(* NodeKafka::Connection::Topic (src/src/topic.cc): the v8-wrapped Topic   *)
(* object of node-rdkafka.  A Topic stores its name, its RdKafka::Conf, a  *)
(* raw pointer to the owning Connection and the native RdKafka::Topic it   *)
(* obtained from Connection::CreateTopic at construction.  The module      *)
(* models the constructor binding (New), the lookups (get, name,           *)
(* toRdKafkaTopic), the destructor, and the life of the owning connection. *)
(***************************************************************************)
EXTENDS Integers, Sequences, FiniteSets

VARIABLES
    topics,   \* slot -> NoTopic, or the fields of a live Topic object
    passed,   \* slot -> the JavaScript string given as the name at creation
    conn,     \* the owning Connection: "disconnected", "connected", "destroyed"
    last      \* the most recent operation, its arguments and what it returned

vars == <<topics, passed, conn, last>>

----------------------------------------------------------------------------
(* Bounds and inputs *)

\* Topic objects that can be live at the same time.
MaxTopics == 2

Slots == 1..MaxTopics

\* m_topic(NULL): the null native topic pointer.  A non-null native topic is
\* represented by the (positive) slot number of the Topic that owns it.
NULL == 0

\* The Connection* unwrapped from info[2].
TheConnection == 1

\* JavaScript strings are sequences of characters; "NUL" is U+0000.
JsStrings == { <<>>, <<"a">>, <<"a", "NUL">> }

\* Values the library can hold or report for a configuration property.
ConfValues == { <<"1">>, <<"2">> }

\* The configuration objects passed as info[1], each a set of
\* <<property name, value>> pairs.
ConfigObjects == { {}, { << <<"a">>, <<"1">> >> } }

Keys(props) == { p[1] : p \in props }

JsString(s) == [type |-> "string", s |-> s]
JsNumber == [type |-> "number", s |-> <<>>]
JsUndefined == [type |-> "undefined", s |-> <<>>]
JsThis == [type |-> "Topic", s |-> <<>>]

\* The string values a caller can pass as a topic name or as a key.
KeyArgs == { JsString(s) : s \in JsStrings }

NoTopic == [live |-> FALSE]

NoBaton == [err |-> "none", data |-> NULL]

----------------------------------------------------------------------------
(* Pure parts of the code *)

\* std::string s(*utf8): the std::string(const char*) constructor stops at
\* the first NUL of the buffer Nan::Utf8String filled.
CStr(s) ==
    LET nuls == { i \in 1..Len(s) : s[i] = "NUL" }
    IN  IF nuls = {} THEN s
        ELSE SubSeq(s, 1, (CHOOSE i \in nuls : \A j \in nuls : i <= j) - 1)

\* Baton(RdKafka::ErrorCode) and Baton(void*).
BatonErr(code) == [err |-> code, data |-> NULL]
BatonData(ptr) == [err |-> "ERR_NO_ERROR", data |-> ptr]

\* Connection::CreateTopic(name, conf): a native topic, or an error code; it
\* needs an established connection and the library may still refuse.
CreateTopic(connState, libAccepts, ptr) ==
    IF connState # "connected" THEN BatonErr("ERR__STATE")
    ELSE IF libAccepts THEN BatonData(ptr)
    ELSE BatonErr("ERR_TOPIC_EXCEPTION")

\* Conf::create(CONF_TOPIC, object, errstr): the RdKafka::Conf holding the
\* object's properties, or NULL when the library refuses one of them.
ConfCreate(obj, libAccepts) ==
    IF libAccepts THEN [null |-> FALSE, props |-> obj]
    ELSE [null |-> TRUE, props |-> {}]

\* A constructor that fills in the name only once CreateTopic succeeded.
TopicCtor_NameOnSuccess(name, config, handle, b) ==
    [live         |-> TRUE,
     m_topic      |-> IF b.err = "ERR_NO_ERROR" THEN b.data ELSE NULL,
     m_topic_name |-> IF b.err = "ERR_NO_ERROR" THEN name ELSE <<>>,
     m_config     |-> config,
     m_handle     |-> handle]

\* Topic::Topic(topic_name, config, handle), given CreateTopic's Baton.
TopicCtor(name, config, handle, b) ==
    [live         |-> TRUE,
     m_topic      |-> IF b.err = "ERR_NO_ERROR" THEN b.data ELSE NULL,
     m_topic_name |-> name,
     m_config     |-> config,
     m_handle     |-> handle]

\* A gate that checks the pointer but not the connection's state.
ToRdKafkaTopic_NoStateCheck(topic, isConnected) ==
    IF topic.m_handle = NULL
    THEN BatonErr("ERR__STATE")
    ELSE BatonData(topic.m_topic)

\* Topic::toRdKafkaTopic(), given what m_handle->IsConnected() reads.
ToRdKafkaTopic(topic, isConnected) ==
    IF topic.m_handle = NULL \/ ~isConnected
    THEN BatonErr("ERR__STATE")
    ELSE BatonData(topic.m_topic)

\* Topic::Name().
Name(topic) == topic.m_topic_name

\* A switch whose CONF_INVALID case falls into the CONF_UNKNOWN one.
GetOutcome_InvalidAsAbsent(res, value) ==
    CASE res = "CONF_UNKNOWN" -> [kind |-> "return", v |-> JsUndefined]
      [] res = "CONF_INVALID" -> [kind |-> "return", v |-> JsUndefined]
      [] res = "CONF_OK"      -> [kind |-> "return", v |-> JsString(value)]

\* A switch that treats every result but CONF_OK as an error.
GetOutcome_UnknownThrows(res, value) ==
    CASE res = "CONF_UNKNOWN" -> [kind |-> "throw", v |-> JsUndefined]
      [] res = "CONF_INVALID" -> [kind |-> "throw", v |-> JsUndefined]
      [] res = "CONF_OK"      -> [kind |-> "return", v |-> JsString(value)]

\* The switch of NodeGet over the result of RdKafka::Conf::get.
GetOutcome(res, value) ==
    CASE res = "CONF_UNKNOWN" -> [kind |-> "return", v |-> JsUndefined]
      [] res = "CONF_INVALID" -> [kind |-> "throw", v |-> JsUndefined]
      [] res = "CONF_OK"      -> [kind |-> "return", v |-> JsString(value)]

Throw == [kind |-> "throw", v |-> JsUndefined]

Return(v) == [kind |-> "return", v |-> v]

----------------------------------------------------------------------------
(* State *)

Op(op, t, arg, cfg, lib, ret, baton) ==
    [op |-> op, t |-> t, arg |-> arg, cfg |-> cfg, lib |-> lib,
     ret |-> ret, baton |-> baton]

NoLib == [res |-> "none", key |-> <<>>, value |-> <<>>]

NoCfg == [type |-> "none", props |-> {}]

NoRet == [kind |-> "none", v |-> JsUndefined]

Init ==
    /\ topics = [t \in Slots |-> NoTopic]
    /\ passed = [t \in Slots |-> <<>>]
    /\ conn = "disconnected"
    /\ last = Op("init", 0, JsUndefined, NoCfg, NoLib, NoRet, NoBaton)

Live == { t \in Slots : topics[t].live }

Free == { t \in Slots : ~topics[t].live }

----------------------------------------------------------------------------
(* Operations *)

NoArgs == [type |-> "none", s |-> <<>>]

JsObject(obj) == [type |-> "object", props |-> obj]

NotAnObject == [type |-> "undefined", props |-> {}]

\* The shapes of a call of the Topic constructor binding: how it is invoked,
\* how many arguments it gets, the name and configuration values, and the
\* answers of the library to Conf::create and to the creation of the topic.
NewCalls ==
    [ctor : {FALSE}, argc : {3}, name : {JsString(<<"a">>)},
     cfg : {JsObject({})}, confOk : {TRUE}, libOk : {TRUE}]
    \cup
    [ctor : {TRUE}, argc : 0..2, name : {JsString(<<"a">>)},
     cfg : {JsObject({})}, confOk : {TRUE}, libOk : {TRUE}]
    \cup
    [ctor : {TRUE}, argc : {3}, name : {JsNumber},
     cfg : {JsObject({})}, confOk : {TRUE}, libOk : {TRUE}]
    \cup
    [ctor : {TRUE}, argc : {3}, name : KeyArgs,
     cfg : {NotAnObject}, confOk : {TRUE}, libOk : {TRUE}]
    \cup
    [ctor : {TRUE}, argc : {3}, name : KeyArgs,
     cfg : { JsObject(o) : o \in ConfigObjects }, confOk : {FALSE}, libOk : {TRUE}]
    \cup
    [ctor : {TRUE}, argc : {3}, name : KeyArgs,
     cfg : { JsObject(o) : o \in ConfigObjects }, confOk : {TRUE}, libOk : BOOLEAN]

\* Topic::New up to the construction: TRUE when an argument check throws.
NewRejects(c) ==
    \/ ~c.ctor
    \/ c.argc < 3
    \/ c.name.type # "string"
    \/ c.cfg.type # "object"
    \/ ConfCreate(c.cfg.props, c.confOk).null

\* What Conf::create answered in a call of New, if the call got that far.
ConfReply(c) ==
    IF ~c.ctor \/ c.argc < 3 \/ c.name.type # "string" \/ c.cfg.type # "object"
    THEN NoLib
    ELSE [res |-> IF ConfCreate(c.cfg.props, c.confOk).null
                  THEN "CONF_NULL" ELSE "CONF_CREATED",
          key |-> <<>>, value |-> <<>>]

\* Topic::New: `new Topic(name, config, connection)` from JavaScript.  The
\* caller holds the connection object it passes, so that object exists; the
\* Topic takes the lowest free slot.
New(c) ==
    /\ conn # "destroyed"
    /\ IF NewRejects(c)
       THEN /\ last' = Op("New", 0, c.name, c.cfg, ConfReply(c), Throw, NoBaton)
            /\ UNCHANGED <<topics, passed, conn>>
       ELSE /\ Free # {}
            /\ LET t == CHOOSE f \in Free : \A g \in Free : f <= g
                   b == CreateTopic(conn, c.libOk, t)
                   topic == TopicCtor(CStr(c.name.s),
                                      ConfCreate(c.cfg.props, c.confOk).props,
                                      TheConnection, b)
               IN  /\ topics' = [topics EXCEPT ![t] = topic]
                   /\ passed' = [passed EXCEPT ![t] = c.name.s]
                   /\ last' = Op("New", t, c.name, c.cfg, ConfReply(c),
                                 Return(JsThis), b)
            /\ UNCHANGED conn

\* Topic::~Topic: the JavaScript object was released and collected.
Release(t) ==
    /\ t \in Live
    /\ topics' = [topics EXCEPT ![t] = NoTopic]
    /\ passed' = [passed EXCEPT ![t] = <<>>]
    /\ last' = Op("release", t, JsUndefined, NoCfg, NoLib, NoRet, NoBaton)
    /\ UNCHANGED conn

\* topic_conf->get(config_key, value): the key the library is asked for is
\* std::string(*utf8) of the argument; res and value are its answer.
ConfGet(keyArg, res, value) ==
    [res |-> res, key |-> CStr(keyArg.s), value |-> value]

\* A get that keeps the value it read in the Topic's configuration.
NodeGet_Caching(t, keyArg, res, value) ==
    /\ t \in Live
    /\ last' = Op("get", t, keyArg, NoCfg, ConfGet(keyArg, res, value),
                  GetOutcome(res, value), NoBaton)
    /\ topics' = [topics EXCEPT ![t].m_config =
                     IF res = "CONF_OK"
                     THEN { p \in @ : p[1] # CStr(keyArg.s) }
                          \cup { <<CStr(keyArg.s), value>> }
                     ELSE @]
    /\ UNCHANGED <<passed, conn>>

\* get(key), or get() when keyArg = NoArgs; res and value are what
\* RdKafka::Conf::get answers for the key.
NodeGet(t, keyArg, res, value) ==
    /\ t \in Live
    /\ IF keyArg.type = "none"
       THEN last' = Op("get", t, keyArg, NoCfg, NoLib, Throw, NoBaton)
       ELSE last' = Op("get", t, keyArg, NoCfg, ConfGet(keyArg, res, value),
                       GetOutcome(res, value), NoBaton)
    /\ UNCHANGED <<topics, passed, conn>>

\* name().
NodeGetName(t) ==
    /\ t \in Live
    /\ last' = Op("name", t, JsUndefined, NoCfg, NoLib,
                  Return(JsString(Name(topics[t]))), NoBaton)
    /\ UNCHANGED <<topics, passed, conn>>

\* toRdKafkaTopic() on a Topic whose connection object still exists.
CallToRdKafkaTopic(t) ==
    /\ t \in Live
    /\ conn # "destroyed"
    /\ last' = Op("toRdKafkaTopic", t, JsUndefined, NoCfg, NoLib, NoRet,
                  ToRdKafkaTopic(topics[t], conn = "connected"))
    /\ UNCHANGED <<topics, passed, conn>>

\* toRdKafkaTopic() after the Connection was deleted: m_handle dangles and
\* IsConnected() reads freed memory, which may hold either value.
CallToRdKafkaTopicDangling(t, stale) ==
    /\ t \in Live
    /\ conn = "destroyed"
    /\ last' = Op("toRdKafkaTopic", t, JsUndefined, NoCfg, NoLib, NoRet,
                  ToRdKafkaTopic(topics[t], stale))
    /\ UNCHANGED <<topics, passed, conn>>

\* The connection becomes established.
Connect ==
    /\ conn = "disconnected"
    /\ conn' = "connected"
    /\ last' = Op("connect", 0, JsUndefined, NoCfg, NoLib, NoRet, NoBaton)
    /\ UNCHANGED <<topics, passed>>

\* The connection is closed or lost.
Disconnect ==
    /\ conn = "connected"
    /\ conn' = "disconnected"
    /\ last' = Op("disconnect", 0, JsUndefined, NoCfg, NoLib, NoRet, NoBaton)
    /\ UNCHANGED <<topics, passed>>

\* The Connection object is collected and deleted.  No Topic is told: a
\* Topic holds the raw pointer only and the Connection never sees a Topic.
DestroyConnection ==
    /\ conn # "destroyed"
    /\ conn' = "destroyed"
    /\ last' = Op("destroy", 0, JsUndefined, NoCfg, NoLib, NoRet, NoBaton)
    /\ UNCHANGED <<topics, passed>>

Next ==
    \/ \E c \in NewCalls : New(c)
    \/ \E t \in Slots : Release(t)
    \/ \E t \in Slots : NodeGet(t, NoArgs, "CONF_UNKNOWN", <<>>)
    \/ \E t \in Slots, k \in KeyArgs :
          \/ \E res \in {"CONF_UNKNOWN", "CONF_INVALID"} : NodeGet(t, k, res, <<>>)
          \/ \E v \in ConfValues : NodeGet(t, k, "CONF_OK", v)
    \/ \E t \in Slots : NodeGetName(t)
    \/ \E t \in Slots : CallToRdKafkaTopic(t)
    \/ \E t \in Slots, stale \in BOOLEAN : CallToRdKafkaTopicDangling(t, stale)
    \/ Connect
    \/ Disconnect
    \/ DestroyConnection

Spec == Init /\ [][Next]_vars

----------------------------------------------------------------------------
(* Claims *)

IsGet == last.op = "get" /\ last.arg.type = "string"

IsUse == last.op = "toRdKafkaTopic"

HasNul(str) == \E i \in 1..Len(str) : str[i] = "NUL"

\* C1: whenever the owning connection exists and is not established at the
\* moment of a toRdKafkaTopic call, the call fails with ERR__STATE, and when
\* it is established the call returns the stored native topic without error:
\* the outcome is decided by the connection state at the call alone, whatever
\* the state was when the Topic was constructed.
C1_GateCheckedAtEachCall ==
    IsUse /\ conn # "destroyed" =>
        /\ conn = "disconnected" => last.baton = BatonErr("ERR__STATE")
        /\ conn = "connected" => last.baton = BatonData(topics[last.t].m_topic)

\* A Topic built while connected (it holds a native topic) is used after the
\* connection dropped, and the call fails with ERR__STATE.
C1_Witness ==
    /\ IsUse
    /\ conn = "disconnected"
    /\ topics[last.t].m_topic # NULL
    /\ last.baton.err = "ERR__STATE"

\* C2: get(key) maps the result of Conf::get to three different outcomes:
\* CONF_UNKNOWN returns undefined without an error, CONF_INVALID throws and
\* returns nothing, CONF_OK returns exactly the string the library reported.
C2_GetThreeWay ==
    IsGet =>
        /\ last.lib.res = "CONF_UNKNOWN" => last.ret = Return(JsUndefined)
        /\ last.lib.res = "CONF_INVALID" => last.ret.kind = "throw"
        /\ last.lib.res = "CONF_OK" => last.ret = Return(JsString(last.lib.value))

\* The library reports CONF_INVALID for a key the Topic was configured with,
\* and get throws.
C2_Witness ==
    /\ IsGet
    /\ last.lib.res = "CONF_INVALID"
    /\ last.lib.key \in Keys(topics[last.t].m_config)
    /\ last.ret.kind = "throw"

\* C3 as stated: name() returns exactly the name string passed at creation.
C3_NameIsExactlyThePassedName ==
    last.op = "name" => last.ret = Return(JsString(passed[last.t]))

\* C3 amended: in every state name() returns, without an error, the name
\* passed at creation cut before its first NUL character: the result has no
\* NUL, is a prefix of the passed name, and is the whole name unless a NUL
\* follows the prefix.
C3_NameIsThePassedNameUpToNul ==
    last.op = "name" =>
        LET given == passed[last.t]
            r == last.ret.v.s
        IN  /\ last.ret.kind = "return"
            /\ last.ret.v.type = "string"
            /\ ~HasNul(r)
            /\ Len(r) <= Len(given)
            /\ r = SubSeq(given, 1, Len(r))
            /\ Len(r) < Len(given) => given[Len(r) + 1] = "NUL"

\* name() answers "a" on a Topic created as "a\0" whose native topic could
\* not be created and whose connection has since been destroyed.
C3_Witness ==
    /\ last.op = "name"
    /\ conn = "destroyed"
    /\ topics[last.t].m_topic = NULL
    /\ passed[last.t] = <<"a", "NUL">>
    /\ last.ret = Return(JsString(<<"a">>))

\* C4: there are never two live Topics of the same connection and name that
\* hold different configurations.
C4_NoDivergentTopics ==
    \A t1 \in Live, t2 \in Live :
        /\ topics[t1].m_handle = topics[t2].m_handle
        /\ Name(topics[t1]) = Name(topics[t2])
        => topics[t1].m_config = topics[t2].m_config

\* C5: a creation whose name is the empty string, or whose name is not a
\* string, or whose configuration is not an object or is refused by
\* Conf::create, throws and creates no Topic.
C5_BadArgumentsRejected ==
    /\ last.op = "New"
    /\ \/ last.arg = JsString(<<>>)
       \/ last.arg.type # "string"
       \/ last.cfg.type # "object"
       \/ last.lib.res = "CONF_NULL"
    => last.ret.kind = "throw" /\ last.t = 0

\* C6: an error of the native library is reported to the caller of the
\* operation: a creation whose CreateTopic returned an error code throws,
\* and a get whose Conf::get returned CONF_INVALID throws.
C6_LibraryErrorsSurface ==
    /\ last.op = "New" /\ last.baton.err \notin {"none", "ERR_NO_ERROR"}
         => last.ret.kind = "throw"
    /\ IsGet /\ last.lib.res = "CONF_INVALID" => last.ret.kind = "throw"

\* C7: once the owning connection is destroyed no Topic is live, and a
\* toRdKafkaTopic call made then fails with ERR__STATE.
C7_TopicsDieWithConnection ==
    conn = "destroyed" =>
        /\ Live = {}
        /\ IsUse => last.baton = BatonErr("ERR__STATE")

\* C8 as stated: get(key) for a key that is not in the Topic's configuration
\* returns undefined and no error.
C8_UnsetKeyIsAbsent ==
    IsGet /\ last.arg.s \notin Keys(topics[last.t].m_config)
        => last.ret = Return(JsUndefined)

\* C8 amended: get(key) for a key that is not in the Topic's configuration
\* returns undefined and no error exactly when the library reports
\* CONF_UNKNOWN for it, the empty key included; the library is asked for the
\* key cut before its first NUL.
C8_UnsetKeyIsAbsentWhenUnknown ==
    IsGet /\ last.arg.s \notin Keys(topics[last.t].m_config) =>
        /\ last.lib.res = "CONF_UNKNOWN" <=> last.ret = Return(JsUndefined)
        /\ ~HasNul(last.lib.key)
        /\ ~HasNul(last.arg.s) => last.lib.key = last.arg.s

\* get("") on a Topic configured with {a: 1}: the library reports
\* CONF_UNKNOWN and get returns undefined.
C8_Witness ==
    /\ IsGet
    /\ last.arg.s = <<>>
    /\ topics[last.t].m_config # {}
    /\ last.lib.res = "CONF_UNKNOWN"
    /\ last.ret = Return(JsUndefined)

\* C9: a step that is a lookup (get, name, toRdKafkaTopic) leaves every
\* Topic's name, configuration, native topic and connection pointer as they
\* were, whatever the lookup returned.
C9_LookupsChangeNothing ==
    [][last'.op \in {"get", "name", "toRdKafkaTopic"}
         => topics' = topics /\ conn' = conn]_vars

\* A get on a Topic configured with {a: 1} for which the library reported
\* another value: the value was returned and the configuration is intact.
C9_Witness ==
    /\ IsGet
    /\ last.lib.res = "CONF_OK"
    /\ last.lib.key = <<"a">>
    /\ last.lib.value = <<"2">>
    /\ topics[last.t].m_config = { << <<"a">>, <<"1">> >> }

\* C10: a toRdKafkaTopic call on an existing connection that returns without
\* an error returns a non-null native topic.
C10_NoErrorMeansNativeTopic ==
    IsUse /\ conn # "destroyed" /\ last.baton.err = "ERR_NO_ERROR"
        => last.baton.data # NULL

====
